---- MODULE Spec2Model ----
(***************************************************************************)
(* CartPoleVisualEnv (gym_cartpole_visual/envs/cartpole_visual_env.py):    *)
(* the cart-pole integrator, the episode bookkeeping of step()/reset(),    *)
(* the seeded palette of change_color(), and the lazily built viewer of    *)
(* render()/close().                                                       *)
(*                                                                         *)
(* Reals are carried in fixed point: an integer n stands for n / Scale.    *)
(* Every product and quotient is rounded to the nearest unit, in the order *)
(* in which the Python expression evaluates it.  Seeds are 32-bit values   *)
(* carried as <<high half, low half>> of 16 bits each.                     *)
(***************************************************************************)
EXTENDS Integers, Sequences, FiniteSets, TLC

(* ---------------- bounds of the exploration ---------------- *)
MaxSteps == 28
MaxSwitches == 0
MaxStepsReversal == 36
MaxReversals == 1
MaxResets == 2

(* ---------------- fixed-point arithmetic ---------------- *)
Scale == 10000

Abs(a) == IF a < 0 THEN -a ELSE a

Round(a, b) == (a + (b \div 2)) \div b

Mul(a, b) == Round(a * b, Scale)

Div(a, b) == Round(a * Scale, b)

pi == 31416

cos(t) ==
    LET t2 == Mul(t, t)
        t4 == Mul(t2, t2)
        t6 == Mul(t4, t2)
        t8 == Mul(t4, t4)
    IN  Scale - Round(t2, 2) + Round(t4, 24) - Round(t6, 720) + Round(t8, 40320)

sin(t) ==
    LET t2 == Mul(t, t)
        t3 == Mul(t2, t)
        t5 == Mul(t3, t2)
        t7 == Mul(t5, t2)
    IN  t - Round(t3, 6) + Round(t5, 120) - Round(t7, 5040)

(* ---------------- constants of __init__ ---------------- *)
gravity == 98000
masscart == 10000
masspole == 1000
total_mass == masspole + masscart
polelength == 50000
polemass_length == Mul(masspole, polelength)
force_mag == 100000
tau == 200
theta_threshold_radians == Round(12 * 2 * pi, 360)
x_threshold == 24000
FourThirds == Div(4 * Scale, 3 * Scale)
screen_width == 64

None == <<>>

DefaultPalette ==
    [polecolor |-> <<0, 0, Scale>>,
     cartcolor |-> <<Scale, Scale, 0>>,
     axlecolor |-> <<Scale, 0, Scale>>,
     trackcolor |-> <<0, Scale, Scale>>,
     backgroundcolor |-> <<Scale, Scale, Scale>>]

(* ---------------- seeds ---------------- *)
Half == 65536

(* values randrange(2**32) can return, around the signed 32-bit limit *)
RandSeeds == {<<32767, 65535>>, <<32768, 0>>}

(* (num_levels, start_level) pairs an instance is constructed with *)
Configs == {[num_levels |-> 1, start_level |-> <<0, 7>>],
            [num_levels |-> 0, start_level |-> <<0, 0>>]}

(* np.int32(seed): the low 32 bits read as a signed integer *)
Int32(s) == IF s[1] < Half \div 2 THEN s[1] * Half + s[2]
            ELSE (s[1] - Half) * Half + s[2]

BlankGenerator == [seed |-> <<0, 0>>, pos |-> 0]

KeepStream(rng, s) == [seed |-> s, pos |-> rng.pos]

(* seeding.np_random(seed): a generator at the start of the stream of seed *)
Reseed(rng, s) == [seed |-> s, pos |-> 0]

(* the n-th scalar of np_random.normal(0.5, 0.5, .) in the stream of seed s *)
Normal(s, n) ==
    (Scale \div 2) + 500 * (((s[1] * 17 + s[2] * 31 + n * n * 7 + n * 13) % 61) - 30)

Clip(v) == IF v < 0 THEN 0 ELSE IF v > Scale THEN Scale ELSE v

Draw3(rng, k) ==
    << Clip(Normal(rng.seed, rng.pos + k)),
       Clip(Normal(rng.seed, rng.pos + k + 1)),
       Clip(Normal(rng.seed, rng.pos + k + 2)) >>

(* values np.random.uniform(-0.05, 0.05, 4) can return *)
ResetStates == {<<400, -300, -440, -375>>, <<-200, 100, 450, 400>>}

Actions == {0, 1, 2}

(* ---------------- the physics of step() ---------------- *)
Integrate(st, action) ==
    LET x == st[1]
        x_dot == st[2]
        theta == st[3]
        theta_dot == st[4]
        force == IF action = 1 THEN force_mag ELSE -force_mag
        costheta == cos(theta)
        sintheta == sin(theta)
        temp == Div(force + Mul(Mul(Mul(polemass_length, theta_dot), theta_dot), sintheta),
                    total_mass)
        thetaacc == Div(Mul(gravity, sintheta) - Mul(costheta, temp),
                        Mul(polelength,
                            FourThirds - Div(Mul(Mul(masspole, costheta), costheta), total_mass)))
        xacc == temp - Div(Mul(Mul(polemass_length, thetaacc), costheta), total_mass)
    IN  << x + Mul(tau, x_dot),
           x_dot + Mul(tau, xacc),
           theta + Mul(tau, theta_dot),
           theta_dot + Mul(tau, thetaacc) >>

IsDoneNoLeftTilt(st) ==
    \/ st[1] < -x_threshold
    \/ st[1] > x_threshold
    \/ st[3] > theta_threshold_radians

IsDone(st) ==
    \/ st[1] < -x_threshold
    \/ st[1] > x_threshold
    \/ st[3] < -theta_threshold_radians
    \/ st[3] > theta_threshold_radians


(* ---------------- the bookkeeping of step() ---------------- *)
ActionValidUpTo2(a) == a \in {0, 1, 2}

(* action_space.contains(action) for Discrete(2) *)
ActionValid(a) == a \in {0, 1}

StepsAfter(sbd, done) ==
    IF ~done THEN sbd
    ELSE IF sbd = None THEN <<0>>
    ELSE <<sbd[1] + 1>>

Reward(sbd, done) ==
    IF ~done THEN Scale
    ELSE IF sbd = None THEN Scale
    ELSE 0

Warns(sbd, done) == done /\ sbd # None /\ sbd = <<0>>

(* ---------------- render(), close(), change_color() ---------------- *)
Geoms(p) == <<p.backgroundcolor, p.cartcolor, p.polecolor, p.axlecolor, p.trackcolor>>

ViewerAfterRender(v) == IF v = None THEN <<"Viewer">> ELSE v

GeomsAfterRender(v, g, p) == IF v = None THEN Geoms(p) ELSE g

Image(st, g) ==
    << Round(st[1] * screen_width, 2 * x_threshold) + (screen_width \div 2), -st[3], g >>

ViewerKept(v) == v

ViewerAfterClose(v) == None

Roll(rng) ==
    [polecolor |-> Draw3(rng, 0),
     cartcolor |-> Draw3(rng, 3),
     axlecolor |-> Draw3(rng, 6),
     trackcolor |-> Draw3(rng, 9),
     backgroundcolor |-> Draw3(rng, 12)]

Advance(rng) == [rng EXCEPT !.pos = @ + 15]

KeepSteps(sbd) == sbd

ClearSteps(sbd) == None

(* ---------------- what a call hands back ---------------- *)
RetNone == [kind |-> "None", img |-> None, reward |-> 0, done |-> 0,
            level_seed |-> 0, exc |-> ""]

RetRaise(e) == [RetNone EXCEPT !.kind = "raise", !.exc = e]

RetImg(i) == [RetNone EXCEPT !.kind = "img", !.img = i]

RetStep(i, r, d, ls) ==
    [kind |-> "tuple", img |-> i, reward |-> r, done |-> d, level_seed |-> ls, exc |-> ""]

RenderRetUnguarded(st, g) ==
    IF st = None THEN RetRaise("TypeError") ELSE RetImg(Image(st, g))

RenderRet(st, g) == IF st = None THEN RetNone ELSE RetImg(Image(st, g))

(* ---------------- state ---------------- *)
VARIABLES
    num_levels, offset, seed, np_random,      \* seeding
    viewer, geoms, palette,                   \* rendering
    state, steps_beyond_done,                 \* episode
    lastOp, lastArg, ret, warned,             \* the last call and its outcome
    resets, t, switches, lastAction,          \* the caller
    doneSeen, postCalls, epWarns,             \* history of the episode
    firstPalette, resetFrom                   \* history of the instance

envVars == <<num_levels, offset, seed, np_random, viewer, geoms, palette,
             state, steps_beyond_done>>

callVars == <<lastOp, lastArg, ret, warned>>

histVars == <<resets, t, switches, lastAction, doneSeen, postCalls, epWarns,
              firstPalette, resetFrom>>

vars == <<envVars, callVars, histVars>>

Status ==
    IF state = None THEN "Uninitialized"
    ELSE IF steps_beyond_done = None THEN "Live"
    ELSE IF steps_beyond_done = <<0>> THEN "Terminated"
    ELSE "PastTerminal"

Init ==
    \E cfg \in Configs :
      \E s \in (IF cfg.num_levels = 0 THEN RandSeeds ELSE {cfg.start_level}) :
        /\ num_levels = cfg.num_levels
        /\ offset = cfg.start_level
        /\ seed = s
        /\ np_random = Reseed(BlankGenerator, s)
        /\ viewer = None
        /\ geoms = None
        /\ palette = DefaultPalette
        /\ state = None
        /\ steps_beyond_done = None
        /\ lastOp = "init"
        /\ lastArg = 0
        /\ ret = RetNone
        /\ warned = FALSE
        /\ resets = 0
        /\ t = 0
        /\ switches = 0
        /\ lastAction = 0
        /\ doneSeen = FALSE
        /\ postCalls = 0
        /\ epWarns = 0
        /\ firstPalette = DefaultPalette
        /\ resetFrom = "Uninitialized"

(* step(action) stopped by the assert on the action space *)
StepInvalid(a) ==
    /\ ~ActionValid(a)
    /\ lastOp' = "step"
    /\ lastArg' = a
    /\ ret' = RetRaise("AssertionError")
    /\ warned' = FALSE
    /\ UNCHANGED <<envVars, histVars>>

(* step(action) stopped by unpacking a state that is None *)
StepNoEpisode(a) ==
    /\ ActionValid(a)
    /\ state = None
    /\ lastOp' = "step"
    /\ lastArg' = a
    /\ ret' = RetRaise("TypeError")
    /\ warned' = FALSE
    /\ UNCHANGED <<envVars, histVars>>

(* step(action) running to its return *)
StepRun(a, maxSteps, maxSwitches) ==
    /\ ActionValid(a)
    /\ state # None
    /\ t < maxSteps
    /\ (t = 0 \/ a = lastAction \/ switches < maxSwitches)
    /\ LET ns == Integrate(state, a)
           done == IsDone(ns)
           g == GeomsAfterRender(viewer, geoms, palette)
       IN  /\ state' = ns
           /\ steps_beyond_done' = StepsAfter(steps_beyond_done, done)
           /\ warned' = Warns(steps_beyond_done, done)
           /\ viewer' = ViewerAfterRender(viewer)
           /\ geoms' = g
           /\ ret' = RetStep(Image(ns, g), Reward(steps_beyond_done, done),
                             IF done THEN 1 ELSE 0, Int32(seed))
           /\ doneSeen' = (doneSeen \/ done)
           /\ postCalls' = IF doneSeen THEN postCalls + 1 ELSE 0
           /\ epWarns' = IF Warns(steps_beyond_done, done) THEN epWarns + 1 ELSE epWarns
    /\ lastOp' = "step"
    /\ lastArg' = a
    /\ t' = t + 1
    /\ switches' = IF t > 0 /\ a # lastAction THEN switches + 1 ELSE switches
    /\ lastAction' = a
    /\ UNCHANGED <<num_levels, offset, seed, np_random, palette, resets,
                   firstPalette, resetFrom>>

step(a, maxSteps, maxSwitches) ==
    StepInvalid(a) \/ StepNoEpisode(a) \/ StepRun(a, maxSteps, maxSwitches)

reset ==
    /\ resets < MaxResets
    /\ \E s \in (IF num_levels = 0 THEN RandSeeds ELSE {offset}) :
       \E st \in ResetStates :
         LET rng == Reseed(np_random, s)
             p == Roll(rng)
         IN  /\ seed' = s
             /\ state' = st
             /\ steps_beyond_done' = ClearSteps(steps_beyond_done)
             /\ viewer' = ViewerAfterRender(viewer)
             /\ palette' = p
             /\ np_random' = Advance(rng)
             /\ geoms' = Geoms(p)
             /\ ret' = RetImg(Image(st, Geoms(p)))
             /\ firstPalette' = IF resets = 0 /\ num_levels # 0 THEN p ELSE firstPalette
    /\ resetFrom' = Status
    /\ lastOp' = "reset"
    /\ lastArg' = 0
    /\ warned' = FALSE
    /\ resets' = resets + 1
    /\ t' = 0
    /\ switches' = 0
    /\ lastAction' = 0
    /\ doneSeen' = FALSE
    /\ postCalls' = 0
    /\ epWarns' = 0
    /\ UNCHANGED <<num_levels, offset>>

render ==
    /\ viewer' = ViewerAfterRender(viewer)
    /\ geoms' = GeomsAfterRender(viewer, geoms, palette)
    /\ ret' = RenderRet(state, GeomsAfterRender(viewer, geoms, palette))
    /\ lastOp' = "render"
    /\ lastArg' = 0
    /\ warned' = FALSE
    /\ UNCHANGED <<num_levels, offset, seed, np_random, palette, state,
                   steps_beyond_done, histVars>>

close ==
    /\ viewer' = IF viewer # None THEN ViewerAfterClose(viewer) ELSE viewer
    /\ ret' = RetNone
    /\ lastOp' = "close"
    /\ lastArg' = 0
    /\ warned' = FALSE
    /\ UNCHANGED <<num_levels, offset, seed, np_random, geoms, palette, state,
                   steps_beyond_done, histVars>>

(* the caller pushes one way for a whole episode *)
Next ==
    \/ \E a \in Actions : step(a, MaxSteps, MaxSwitches)
    \/ reset
    \/ render
    \/ close

Spec == Init /\ [][Next]_vars

(* the caller may also reverse its push within an episode, and goes on longer *)
NextReversal ==
    \/ \E a \in Actions : step(a, MaxStepsReversal, MaxReversals)
    \/ reset
    \/ render
    \/ close

SpecReversal == Init /\ [][NextReversal]_vars

(* ======================= the claims ======================= *)
Degrees(d) == Round(d * pi, 180)

StepReturned == lastOp = "step" /\ ret.kind = "tuple"

SeedOf(n) == <<n \div Half, n % Half>>

(* C1: within an episode every step() up to and including the first one    *)
(* that returns done pays 1.0, and every step() after it pays 0.0.         *)
RewardOneThenZero ==
    StepReturned => ret.reward = (IF postCalls = 0 THEN Scale ELSE 0)

(* C2: steps_beyond_done is None while no step() of the episode has        *)
(* returned done, 0 on the first that does, and one more on every step()   *)
(* call after it; once set it is not None again before the next reset().   *)
StepsBeyondDoneCountsCalls ==
    state # None =>
        IF doneSeen THEN steps_beyond_done = <<postCalls>>
        ELSE steps_beyond_done = None

SamePaletteEveryReset ==
    (num_levels # 0 /\ lastOp = "reset") =>
        /\ seed = offset
        /\ np_random.seed = offset
        /\ palette = firstPalette
        /\ geoms = Geoms(firstPalette)

SecondResetAfterSteps ==
    /\ num_levels # 0
    /\ lastOp = "reset"
    /\ resets = 2
    /\ resetFrom = "PastTerminal"
    /\ palette # DefaultPalette

(* C5: step(action) with action outside {0, 1} raises, hands back no       *)
(* tuple, and leaves state, steps_beyond_done, seed and palette as they    *)
(* were, whatever the status of the episode.                               *)
InvalidActionChangesNothing ==
    [][(lastOp' = "step" /\ lastArg' \notin {0, 1}) =>
          /\ ret'.kind = "raise"
          /\ ret'.exc = "AssertionError"
          /\ state' = state
          /\ steps_beyond_done' = steps_beyond_done
          /\ seed' = seed
          /\ np_random' = np_random
          /\ palette' = palette]_vars

InvalidActionPastTerminal ==
    /\ lastOp = "step"
    /\ lastArg = 2
    /\ ret.kind = "raise"
    /\ Status = "PastTerminal"

(* C6, as stated: before any reset(), step(a) with a valid action and      *)
(* render() both raise, and state and steps_beyond_done stay None.         *)
CallsBeforeResetRaise ==
    (resets = 0 /\ (lastOp = "render" \/ (lastOp = "step" /\ lastArg \in {0, 1}))) =>
        /\ ret.kind = "raise"
        /\ state = None
        /\ steps_beyond_done = None

(* C6, amended: before any reset(), step(a) with a valid action raises,    *)
(* render() returns None without raising, and both leave state and         *)
(* steps_beyond_done None.                                                 *)
StepRaisesRenderReturnsNoneBeforeReset ==
    /\ (resets = 0 /\ lastOp = "step" /\ lastArg \in {0, 1}) =>
          (ret.kind = "raise" /\ state = None /\ steps_beyond_done = None)
    /\ (resets = 0 /\ lastOp = "render") =>
          (ret.kind = "None" /\ state = None /\ steps_beyond_done = None)

RenderedBeforeReset ==
    /\ resets = 0
    /\ lastOp = "render"
    /\ ret.kind = "None"
    /\ viewer # None

(* C7: in an episode the warning is emitted on the first step() call after *)
(* the first step() that returned done, and on no other call.              *)
WarnedOnFirstPostTerminalCall ==
    /\ postCalls = 0 => epWarns = 0
    /\ postCalls >= 1 => epWarns = 1
    /\ warned => postCalls = 1

(* C8: the level_seed of every step() is the seed the last reset()         *)
(* installed, for every seed of 0 .. 2^32 - 1.                             *)
LevelSeedIsSeed ==
    StepReturned => (ret.level_seed >= 0 /\ SeedOf(ret.level_seed) = seed)

(* C9: close() always succeeds and leaves no viewer, also when there was   *)
(* none; it leaves state, steps_beyond_done, seed and palette alone; and a *)
(* viewer comes into being only in a call that renders.                    *)
CloseReleasesViewer ==
    [][/\ lastOp' = "close" =>
            /\ viewer' = None
            /\ ret'.kind = "None"
            /\ state' = state
            /\ steps_beyond_done' = steps_beyond_done
            /\ seed' = seed
            /\ np_random' = np_random
            /\ palette' = palette
       /\ (viewer = None /\ viewer' # None) =>
            /\ lastOp' \in {"render", "reset", "step"}
            /\ ret'.kind # "raise"]_vars

ClosedAfterRendering ==
    /\ lastOp = "close"
    /\ viewer = None
    /\ geoms # None
    /\ Status = "Terminated"

(* C10: reset() from any status leaves steps_beyond_done None and every    *)
(* state component within [-0.05, 0.05], so not done; and the next step()  *)
(* that observes termination sets steps_beyond_done to 0 and pays 1.0.     *)
ResetLeavesLive ==
    [][/\ lastOp' = "reset" =>
            /\ steps_beyond_done' = None
            /\ \A i \in 1..4 : Abs(state'[i]) <= (5 * Scale) \div 100
            /\ Abs(state'[1]) <= (24 * Scale) \div 10
            /\ Abs(state'[3]) <= Degrees(12)
            /\ Status' = "Live"
       /\ (lastOp' = "step" /\ ret'.kind = "tuple" /\ ret'.done = 1
           /\ steps_beyond_done = None) =>
            /\ steps_beyond_done' = <<0>>
            /\ ret'.reward = Scale]_vars

TerminatedAgainAfterReset ==
    /\ resets = 2
    /\ resetFrom = "PastTerminal"
    /\ StepReturned
    /\ ret.done = 1
    /\ ret.reward = Scale
    /\ steps_beyond_done = <<0>>

====
